---- MODULE Spec2Model ----
(***************************************************************************)
(* Model of the whale chess core: the mailbox coordinate mapper, the       *)
(* piece/colour codec, the movement tables, FEN board construction and the *)
(* move generator (src/whale/src/chess_parts.rs, chess_engine.rs).         *)
(*                                                                         *)
(* Every function of the core is pure; the state machine is a caller that  *)
(* owns one Board and invokes one function at a time.  A call moves pc from*)
(* "idle" to "done" (the function returned) or to "panicked" (the function *)
(* panicked: the thread unwinds and nothing runs after it).                *)
(***************************************************************************)
EXTENDS Integers, Sequences, FiniteSets, TLC

VARIABLES
    board,            \* the caller's Board value, or NoBoard before construction
    overflow_checks,  \* build profile: TRUE = arithmetic overflow panics (debug),
                      \* FALSE = it wraps (release)
    pc,               \* "idle" | "done" | "panicked"
    op,               \* name of the function last called
    args,             \* its arguments
    out               \* its outcome

vars == <<board, overflow_checks, pc, op, args, out>>

----------------------------------------------------------------------------
(* Bounds of the model *)

\* offset_ray_2d lengths are drawn from 0..MaxLength
MaxLength == 8
\* file/rank offsets are drawn from -MaxDelta..MaxDelta
MaxDelta == 3

----------------------------------------------------------------------------
(* Outcomes of a call *)

Some(v) == [tag |-> "Some", val |-> v]
None == [tag |-> "None"]
Ret(v) == [tag |-> "Ret", val |-> v]
Panic(m) == [tag |-> "Panic", msg |-> m]

IsPanic(r) == r.tag = "Panic"

----------------------------------------------------------------------------
(* Fixed-width integer helpers *)

\* `x as i8` for a u8 x
AsI8(x) == IF x >= 128 THEN x - 256 ELSE x

\* `x as u8` for an i8 x
AsU8(x) == IF x < 0 THEN x + 256 ELSE x

\* result of an i8 operation whose mathematical value is x
WrapI8(x) == ((x + 128) % 256) - 128

\* result of a u8 operation whose mathematical value is x
WrapU8(x) == x % 256

\* bit i of the byte x
Bit(x, i) == (x \div (2 ^ i)) % 2

\* a | b for two u8 values
BitOr(a, b) ==
    LET Or(i) == IF Bit(a, i) = 1 \/ Bit(b, i) = 1 THEN 2 ^ i ELSE 0
    IN Or(0) + Or(1) + Or(2) + Or(3) + Or(4) + Or(5) + Or(6) + Or(7)

----------------------------------------------------------------------------
(* Coordinate mapper: chess_parts.rs *)

\* MAILBOX120 with the sentinel that closes rank 0 replaced by the next square
MAILBOX120_Wrap ==
    << -1, -1, -1, -1, -1, -1, -1, -1, -1, -1,
       -1, -1, -1, -1, -1, -1, -1, -1, -1, -1,
       -1,  0,  1,  2,  3,  4,  5,  6,  7,  8,
       -1,  8,  9, 10, 11, 12, 13, 14, 15, -1,
       -1, 16, 17, 18, 19, 20, 21, 22, 23, -1,
       -1, 24, 25, 26, 27, 28, 29, 30, 31, -1,
       -1, 32, 33, 34, 35, 36, 37, 38, 39, -1,
       -1, 40, 41, 42, 43, 44, 45, 46, 47, -1,
       -1, 48, 49, 50, 51, 52, 53, 54, 55, -1,
       -1, 56, 57, 58, 59, 60, 61, 62, 63, -1,
       -1, -1, -1, -1, -1, -1, -1, -1, -1, -1,
       -1, -1, -1, -1, -1, -1, -1, -1, -1, -1 >>

MAILBOX120 ==
    << -1, -1, -1, -1, -1, -1, -1, -1, -1, -1,
       -1, -1, -1, -1, -1, -1, -1, -1, -1, -1,
       -1,  0,  1,  2,  3,  4,  5,  6,  7, -1,
       -1,  8,  9, 10, 11, 12, 13, 14, 15, -1,
       -1, 16, 17, 18, 19, 20, 21, 22, 23, -1,
       -1, 24, 25, 26, 27, 28, 29, 30, 31, -1,
       -1, 32, 33, 34, 35, 36, 37, 38, 39, -1,
       -1, 40, 41, 42, 43, 44, 45, 46, 47, -1,
       -1, 48, 49, 50, 51, 52, 53, 54, 55, -1,
       -1, 56, 57, 58, 59, 60, 61, 62, 63, -1,
       -1, -1, -1, -1, -1, -1, -1, -1, -1, -1,
       -1, -1, -1, -1, -1, -1, -1, -1, -1, -1 >>

MAILBOX64 ==
    << 21, 22, 23, 24, 25, 26, 27, 28,
       31, 32, 33, 34, 35, 36, 37, 38,
       41, 42, 43, 44, 45, 46, 47, 48,
       51, 52, 53, 54, 55, 56, 57, 58,
       61, 62, 63, 64, 65, 66, 67, 68,
       71, 72, 73, 74, 75, 76, 77, 78,
       81, 82, 83, 84, 85, 86, 87, 88,
       91, 92, 93, 94, 95, 96, 97, 98 >>

\* Rust arrays are 0-based: a[i] is the TLA+ tuple element i+1
At(a, i) == a[i + 1]

\* impl From<Mailbox64Index> for Mailbox120Index
toPadded(s) == At(MAILBOX64, s)

\* MAILBOX120.iter().position(|&x| x == v): the first index holding v, or -1
Position120(v) ==
    IF \E i \in 0..119 : At(MAILBOX120, i) = v
    THEN CHOOSE i \in 0..119 :
            /\ At(MAILBOX120, i) = v
            /\ \A j \in 0..(i - 1) : At(MAILBOX120, j) # v
    ELSE -1

\* impl From<Mailbox120Index> for Mailbox64Index
fromPadded(p) ==
    LET idx == Position120(AsI8(p))
    IN IF idx = -1 THEN Panic("unwrap on None") ELSE Ret(WrapU8(idx))

\* the i8 addition a + b under the build profile
AddI8(a, b, checks) ==
    IF a + b \in -128..127 THEN Ret(a + b)
    ELSE IF checks THEN Panic("attempt to add with overflow")
    ELSE Ret(WrapI8(a + b))

\* the i8 multiplication a * b under the build profile
MulI8(a, b, checks) ==
    IF a * b \in -128..127 THEN Ret(a * b)
    ELSE IF checks THEN Panic("attempt to multiply with overflow")
    ELSE Ret(WrapI8(a * b))

offset_index(index, offset, checks) ==
    LET sum == AddI8(AsI8(At(MAILBOX64, index)), offset, checks)
    IN IF IsPanic(sum) THEN sum
       ELSE LET abs_index == sum.val
            IN IF abs_index < 0 \/ abs_index >= 120
               THEN Panic("Invalid Mailbox64 index")
               ELSE LET new_index == At(MAILBOX120, abs_index)
                    IN IF new_index = -1 THEN None ELSE Some(AsU8(new_index))

\* file_offset + rank_offset * 10 in i8 arithmetic
PaddedOffset(file_offset, rank_offset, checks) ==
    LET prod == MulI8(rank_offset, 10, checks)
    IN IF IsPanic(prod) THEN prod ELSE AddI8(file_offset, prod.val, checks)

offset_index_2d(index, file_offset, rank_offset, checks) ==
    IF file_offset < -2 \/ file_offset > 2 \/ rank_offset < -2 \/ rank_offset > 2
    THEN None
    ELSE LET off == PaddedOffset(file_offset, rank_offset, checks)
         IN IF IsPanic(off) THEN off ELSE offset_index(index, off.val, checks)

RECURSIVE RayLoop(_, _, _, _, _)
\* the loop of offset_ray with `remaining` iterations left
RayLoop(current_index, offset, remaining, results, checks) ==
    IF remaining = 0 THEN Ret(results)
    ELSE LET r == offset_index(current_index, offset, checks)
         IN IF IsPanic(r) THEN r
            ELSE IF r.tag = "None" THEN Ret(results)
            ELSE RayLoop(r.val, offset, remaining - 1, Append(results, r.val), checks)

offset_ray(index, offset, length, checks) ==
    RayLoop(index, offset, length, << >>, checks)

\* offset_ray_2d walking one step fewer than asked
offset_ray_2d_short(index, file_offset, rank_offset, length, checks) ==
    IF file_offset < -2 \/ file_offset > 2 \/ rank_offset < -2 \/ rank_offset > 2
    THEN Ret(<< >>)
    ELSE LET off == PaddedOffset(file_offset, rank_offset, checks)
         IN IF IsPanic(off) THEN off
            ELSE offset_ray(index, off.val, IF length > 0 THEN length - 1 ELSE 0, checks)

offset_ray_2d(index, file_offset, rank_offset, length, checks) ==
    IF file_offset < -2 \/ file_offset > 2 \/ rank_offset < -2 \/ rank_offset > 2
    THEN Ret(<< >>)
    ELSE LET off == PaddedOffset(file_offset, rank_offset, checks)
         IN IF IsPanic(off) THEN off ELSE offset_ray(index, off.val, length, checks)

----------------------------------------------------------------------------
(* Piece/colour codec: chess_parts.rs *)

\* enum Piece discriminants
Pawn == 1
Bishop == 2
Rook == 3
Knight == 4
Queen == 5
King == 6
Pieces == {Pawn, Bishop, Rook, Knight, Queen, King}

\* enum Color discriminants
Black == 0
White == 1
Colors == {Black, White}

\* TryFrom<u8> for Piece with a catch-all arm that yields a piece
PieceTryFrom_Lenient(value) ==
    IF value \in {Pawn, Bishop, Rook, Knight, Queen, King} THEN Ret(value)
    ELSE Ret(Pawn)

\* impl TryFrom<u8> for Piece
PieceTryFrom(value) ==
    IF value \in {Pawn, Bishop, Rook, Knight, Queen, King} THEN Ret(value)
    ELSE Panic("unwrap on Err")

\* impl TryFrom<u8> for Color
ColorTryFrom(value) ==
    IF value \in {Black, White} THEN Ret(value) ELSE Panic("unwrap on Err")

\* new_piece without the shift: (piece as u8) | (color as u8)
new_piece_noshift(piece, color) == BitOr(piece, color)

\* ((piece as u8) << 1) | (color as u8)
new_piece(piece, color) == BitOr(WrapU8(piece * 2), color)

piece_from_u8(input) ==
    LET piece == PieceTryFrom(input \div 2)
        color == ColorTryFrom(input % 2)
    IN IF IsPanic(piece) THEN piece
       ELSE IF IsPanic(color) THEN color
       ELSE Ret([piece |-> piece.val, color |-> color.val])

----------------------------------------------------------------------------
(* Movement tables: chess_parts.rs *)

KnightDirs == << <<1, 2>>, <<2, 1>>, <<2, -1>>, <<1, -2>>, <<-1, -2>>, <<-2, -1>>, <<-2, 1>>, <<-1, 2>> >>
BishopDirs == << <<1, 1>>, <<1, -1>>, <<-1, -1>>, <<-1, 1>> >>
RookDirs == << <<0, 1>>, <<1, 0>>, <<0, -1>>, <<-1, 0>> >>
QueenDirs == << <<0, 1>>, <<1, 0>>, <<0, -1>>, <<-1, 0>>, <<1, 1>>, <<1, -1>>, <<-1, -1>>, <<-1, 1>> >>
\* the king's directions with the two-file castling steps added
KingDirs_Castle == << <<0, 1>>, <<1, 0>>, <<0, -1>>, <<-1, 0>>, <<1, 1>>, <<1, -1>>, <<-1, -1>>, <<-1, 1>>, <<2, 0>>, <<-2, 0>> >>
KingDirs == << <<0, 1>>, <<1, 0>>, <<0, -1>>, <<-1, 0>>, <<1, 1>>, <<1, -1>>, <<-1, -1>>, <<-1, 1>> >>
\* the White pawn's directions advancing toward increasing rank index
WhitePawnDirs_Down == << <<0, 1>>, <<0, 2>>, <<1, 1>>, <<-1, 1>> >>
WhitePawnDirs == << <<0, -1>>, <<0, -2>>, <<1, -1>>, <<-1, -1>> >>
BlackPawnDirs == << <<0, 1>>, <<0, 2>>, <<1, 1>>, <<-1, 1>> >>

\* MOVESETS.get(&(piece, color)): the direction list and the sliding flag
MOVESETS(piece, color) ==
    CASE piece = Pawn /\ color = White -> [dirs |-> WhitePawnDirs, sliding |-> FALSE]
      [] piece = Pawn /\ color = Black -> [dirs |-> BlackPawnDirs, sliding |-> FALSE]
      [] piece = Knight -> [dirs |-> KnightDirs, sliding |-> FALSE]
      [] piece = Bishop -> [dirs |-> BishopDirs, sliding |-> TRUE]
      [] piece = Rook -> [dirs |-> RookDirs, sliding |-> TRUE]
      [] piece = Queen -> [dirs |-> QueenDirs, sliding |-> TRUE]
      [] piece = King -> [dirs |-> KingDirs, sliding |-> FALSE]

----------------------------------------------------------------------------
(* Text: a string is a sequence of one-character strings *)

LowerChars == <<"a", "b", "c", "d", "e", "f", "g", "h", "i", "j", "k", "l", "m",
                "n", "o", "p", "q", "r", "s", "t", "u", "v", "w", "x", "y", "z">>
UpperChars == <<"A", "B", "C", "D", "E", "F", "G", "H", "I", "J", "K", "L", "M",
                "N", "O", "P", "Q", "R", "S", "T", "U", "V", "W", "X", "Y", "Z">>
DigitChars == <<"0", "1", "2", "3", "4", "5", "6", "7", "8", "9">>

IndexIn(seq, c) == CHOOSE i \in 1..Len(seq) : seq[i] = c
Occurs(seq, c) == \E i \in 1..Len(seq) : seq[i] = c

\* c as u8, for the ASCII characters the inputs use
Code(c) ==
    IF Occurs(LowerChars, c) THEN 96 + IndexIn(LowerChars, c)
    ELSE IF Occurs(UpperChars, c) THEN 64 + IndexIn(UpperChars, c)
    ELSE IF Occurs(DigitChars, c) THEN 47 + IndexIn(DigitChars, c)
    ELSE CASE c = " " -> 32
           [] c = "+" -> 43
           [] c = "-" -> 45
           [] c = "/" -> 47

\* char::is_ascii_digit
is_ascii_digit(c) == Occurs(DigitChars, c)

\* char::to_digit(10) of an ASCII digit
to_digit(c) == IndexIn(DigitChars, c) - 1

\* char::is_whitespace, for the characters the inputs use
is_whitespace(c) == c = " "

\* the k-th smallest element of a set of positions
NthPosition(S, k) == CHOOSE x \in S : Cardinality({y \in S : y < x}) = k - 1

\* the pieces of str between the separator positions seps, empty pieces included
SplitAt(str, seps) ==
    LET n == Cardinality(seps)
        Cut(k) == IF k = 0 THEN 0
                  ELSE IF k = n + 1 THEN Len(str) + 1
                  ELSE NthPosition(seps, k)
    IN [k \in 1..(n + 1) |-> SubSeq(str, Cut(k - 1) + 1, Cut(k) - 1)]

\* str::split_whitespace().collect(): the non-empty pieces between whitespace
split_whitespace(str) ==
    LET NonEmpty(piece) == piece # << >>
    IN SelectSeq(SplitAt(str, {i \in 1..Len(str) : is_whitespace(str[i])}), NonEmpty)

\* str::split(sep): the pieces between occurrences of sep, empty pieces included
split(str, sep) == SplitAt(str, {i \in 1..Len(str) : str[i] = sep})

RECURSIVE StripZeros(_)
StripZeros(ds) == IF ds # << >> /\ ds[1] = 0 THEN StripZeros(Tail(ds)) ELSE ds

RECURSIVE DigitsLess(_, _)
\* a < b for digit sequences of the same length
DigitsLess(a, b) ==
    IF a = << >> THEN FALSE
    ELSE IF a[1] # b[1] THEN a[1] < b[1]
    ELSE DigitsLess(Tail(a), Tail(b))

RECURSIVE DigitsValue(_, _)
DigitsValue(ds, acc) ==
    IF ds = << >> THEN acc ELSE DigitsValue(Tail(ds), acc * 10 + ds[1])

\* decimal digits of u8::MAX and of usize::MAX on a 64-bit target
U8MaxDigits == <<2, 5, 5>>
UsizeMaxDigits == <<1, 8, 4, 4, 6, 7, 4, 4, 0, 7, 3, 7, 0, 9, 5, 5, 1, 6, 1, 5>>

Ok(v) == [tag |-> "Ok", val |-> v]
Err == [tag |-> "Err"]

\* str::parse::<uN>() where max_digits are the digits of uN::MAX: an optional
\* '+', then one or more decimal digits, with the value at most uN::MAX
parse_unsigned(src, max_digits) ==
    LET body == IF src # << >> /\ src[1] = "+" THEN Tail(src) ELSE src
    IN IF body = << >> THEN Err
       ELSE IF \E i \in 1..Len(body) : ~is_ascii_digit(body[i]) THEN Err
       ELSE LET ds == StripZeros([i \in 1..Len(body) |-> to_digit(body[i])])
            IN IF Len(ds) > Len(max_digits) THEN Err
               ELSE IF Len(ds) = Len(max_digits) /\ DigitsLess(max_digits, ds) THEN Err
               ELSE Ok(DigitsValue(ds, 0))

\* the u8 subtraction a - b under the build profile
SubU8(a, b, checks) ==
    IF a - b >= 0 THEN Ret(a - b)
    ELSE IF checks THEN Panic("attempt to subtract with overflow")
    ELSE Ret(WrapU8(a - b + 256))

\* the u8 multiplication a * b under the build profile
MulU8(a, b, checks) ==
    IF a * b <= 255 THEN Ret(a * b)
    ELSE IF checks THEN Panic("attempt to multiply with overflow")
    ELSE Ret(WrapU8(a * b))

\* the u8 addition a + b under the build profile
AddU8(a, b, checks) ==
    IF a + b <= 255 THEN Ret(a + b)
    ELSE IF checks THEN Panic("attempt to add with overflow")
    ELSE Ret(WrapU8(a + b))

\* impl From<&str> for Mailbox64Index, on a non-empty string
SquareFromStr(value, checks) ==
    LET file == SubU8(Code(value[1]), Code("a"), checks)
    IN IF IsPanic(file) THEN file
       ELSE IF Len(value) < 2 THEN Panic("unwrap on None")
       ELSE LET rank == SubU8(Code(value[2]), Code("1"), checks)
            IN IF IsPanic(rank) THEN rank
               ELSE LET rank8 == MulU8(rank.val, 8, checks)
                    IN IF IsPanic(rank8) THEN rank8
                       ELSE AddU8(file.val, rank8.val, checks)

----------------------------------------------------------------------------
(* Board construction: chess_parts.rs *)

\* a panic whose message carries the offending text
PanicAt(m, d) == [tag |-> "Panic", msg |-> m, detail |-> d]

\* the piece-letter match with the arms of 'K' and 'N' exchanged
PieceOfChar_KN(c) ==
    CASE c = "P" -> Ret(new_piece(Pawn, White))
      [] c = "N" -> Ret(new_piece(King, White))
      [] c = "B" -> Ret(new_piece(Bishop, White))
      [] c = "R" -> Ret(new_piece(Rook, White))
      [] c = "Q" -> Ret(new_piece(Queen, White))
      [] c = "K" -> Ret(new_piece(Knight, White))
      [] c = "p" -> Ret(new_piece(Pawn, Black))
      [] c = "n" -> Ret(new_piece(Knight, Black))
      [] c = "b" -> Ret(new_piece(Bishop, Black))
      [] c = "r" -> Ret(new_piece(Rook, Black))
      [] c = "q" -> Ret(new_piece(Queen, Black))
      [] c = "k" -> Ret(new_piece(King, Black))
      [] OTHER -> PanicAt("Invalid piece char", c)

\* the piece-letter match of Board::new
PieceOfChar(c) ==
    CASE c = "P" -> Ret(new_piece(Pawn, White))
      [] c = "N" -> Ret(new_piece(Knight, White))
      [] c = "B" -> Ret(new_piece(Bishop, White))
      [] c = "R" -> Ret(new_piece(Rook, White))
      [] c = "Q" -> Ret(new_piece(Queen, White))
      [] c = "K" -> Ret(new_piece(King, White))
      [] c = "p" -> Ret(new_piece(Pawn, Black))
      [] c = "n" -> Ret(new_piece(Knight, Black))
      [] c = "b" -> Ret(new_piece(Bishop, Black))
      [] c = "r" -> Ret(new_piece(Rook, Black))
      [] c = "q" -> Ret(new_piece(Queen, Black))
      [] c = "k" -> Ret(new_piece(King, Black))
      [] OTHER -> PanicAt("Invalid piece char", c)

RECURSIVE CastlingLoop(_, _, _)
\* the loop over the characters of the castling field, from position i
CastlingLoop(flags, str, i) ==
    IF i > Len(str) THEN Ret(flags)
    ELSE CASE str[i] = "K" -> CastlingLoop([flags EXCEPT ![1] = TRUE], str, i + 1)
           [] str[i] = "Q" -> CastlingLoop([flags EXCEPT ![2] = TRUE], str, i + 1)
           [] str[i] = "k" -> CastlingLoop([flags EXCEPT ![3] = TRUE], str, i + 1)
           [] str[i] = "q" -> CastlingLoop([flags EXCEPT ![4] = TRUE], str, i + 1)
           [] str[i] = "-" -> CastlingLoop(flags, str, i + 1)
           [] OTHER -> PanicAt("Invalid castling char", str[i])

RECURSIVE RankLoop(_, _, _, _, _)
\* the loop over the characters of one rank, from position i, and the file
\* check that follows it
RankLoop(cells, row_idx, rank, i, file) ==
    IF i > Len(rank)
    THEN IF file # 8 THEN PanicAt("Invalid FEN row", rank) ELSE Ret(cells)
    ELSE IF is_ascii_digit(rank[i])
         THEN RankLoop(cells, row_idx, rank, i + 1, file + to_digit(rank[i]))
         ELSE LET piece == PieceOfChar(rank[i])
              IN IF IsPanic(piece) THEN piece
                 ELSE IF row_idx * 8 + file >= 64 THEN Panic("index out of bounds")
                 ELSE RankLoop([cells EXCEPT ![row_idx * 8 + file] = piece.val],
                               row_idx, rank, i + 1, file + 1)

RECURSIVE RowsLoop(_, _, _)
\* the loop over fen_board.split('/').enumerate(), from the k-th rank
RowsLoop(cells, ranks, k) ==
    IF k > Len(ranks) THEN Ret(cells)
    ELSE LET r == RankLoop(cells, k - 1, ranks[k], 1, 0)
         IN IF IsPanic(r) THEN r ELSE RowsLoop(r.val, ranks, k + 1)

\* the second half of Board::new: the board literal, the castling loop and the
\* placement loop
BuildBoard(fen_board, turn, castling, ep, halfmove_clock, fullmove_clock) ==
    LET flags == CastlingLoop(<<FALSE, FALSE, FALSE, FALSE>>, castling, 1)
    IN IF IsPanic(flags) THEN flags
       ELSE LET cells == RowsLoop([i \in 0..63 |-> 0], split(fen_board, "/"), 1)
            IN IF IsPanic(cells) THEN cells
               ELSE Ret([tag |-> "Board",
                         cells |-> cells.val,
                         turn |-> turn,
                         castling_availability |-> flags.val,
                         en_passant_target_square |-> ep,
                         halfmove_clock |-> halfmove_clock,
                         fullmove_clock |-> fullmove_clock])

\* Board::new(fen)
Board_new(fen, checks) ==
    LET parts == split_whitespace(fen)
    IN IF Len(parts) # 6 THEN PanicAt("Invalid FEN: expected 6 fields", Len(parts))
       ELSE IF parts[2] # <<"w">> /\ parts[2] # <<"b">> THEN PanicAt("Invalid turn field", parts[2])
       ELSE LET turn == IF parts[2] = <<"w">> THEN White ELSE Black
                sq == IF parts[4] = <<"-">> THEN None ELSE SquareFromStr(parts[4], checks)
                ep == IF sq.tag = "Ret" THEN Some(sq.val) ELSE sq
                half == parse_unsigned(parts[5], U8MaxDigits)
                full == parse_unsigned(parts[6], UsizeMaxDigits)
            IN IF IsPanic(ep) THEN ep
               ELSE IF half.tag = "Err" THEN PanicAt("Invalid halfmove clock", parts[5])
               ELSE IF full.tag = "Err" THEN PanicAt("Invalid fullmove clock", parts[6])
               ELSE BuildBoard(parts[1], turn, parts[3], ep, half.val, full.val)

\* the FEN literal of Board::default
DefaultFen ==
    <<"r", "n", "b", "q", "k", "b", "n", "r", "/",
      "p", "p", "p", "p", "p", "p", "p", "p", "/",
      "8", "/", "8", "/", "8", "/", "8", "/",
      "P", "P", "P", "P", "P", "P", "P", "P", "/",
      "R", "N", "B", "Q", "K", "B", "N", "R",
      " ", "w", " ", "K", "Q", "k", "q", " ", "-", " ", "0", " ", "1">>

\* Board::default()
Board_default(checks) == Board_new(DefaultFen, checks)

----------------------------------------------------------------------------
(* Move generator: chess_engine.rs *)

RECURSIVE PseudolegalLoop(_, _, _, _, _)
\* the loop over moveset.0, from the k-th direction.  The call site passes the
\* board as a first argument to offset_ray_2d; the function as defined in
\* chess_parts.rs takes (index, file_offset, rank_offset, length) and never
\* reads a board, and it is that definition the ray follows here.
PseudolegalLoop(index, moveset, k, moves, checks) ==
    IF k > Len(moveset.dirs) THEN Ret(moves)
    ELSE LET dx == moveset.dirs[k][1]
             dy == moveset.dirs[k][2]
         IN IF moveset.sliding
            THEN LET ray == offset_ray_2d(index, dx, dy, 7, checks)
                 IN IF IsPanic(ray) THEN ray
                    ELSE PseudolegalLoop(index, moveset, k + 1, moves \o ray.val, checks)
            ELSE LET target == offset_index_2d(index, dx, dy, checks)
                 IN IF IsPanic(target) THEN target
                    ELSE IF target.tag = "Some"
                    THEN PseudolegalLoop(index, moveset, k + 1, Append(moves, target.val), checks)
                    ELSE PseudolegalLoop(index, moveset, k + 1, moves, checks)

generate_pseudolegal(b, index, checks) ==
    LET pc_ == piece_from_u8(b.cells[index])
    IN IF IsPanic(pc_) THEN pc_
       ELSE PseudolegalLoop(index, MOVESETS(pc_.val.piece, pc_.val.color), 1, << >>, checks)

\* the body of the loop over pseudolegal_moves for one candidate: whether it
\* is pushed (TRUE) or skipped by `continue` (FALSE), or the panic it raises
LegalStep(b, color, target_index) ==
    IF b.cells[target_index] # 0
    THEN LET target == piece_from_u8(b.cells[target_index])
         IN IF IsPanic(target) THEN target ELSE Ret(target.val.color # color)
    ELSE Ret(TRUE)

\* the loop over pseudolegal_moves: the candidates that LegalStep pushes, in
\* order, unless a candidate panics, and then the panic of the first that does
LegalLoop(b, color, pseudolegal_moves) ==
    LET Panics(k) == IsPanic(LegalStep(b, color, pseudolegal_moves[k]))
        Pushed(target_index) == LegalStep(b, color, target_index).val
    IN IF \E k \in 1..Len(pseudolegal_moves) : Panics(k)
       THEN LegalStep(b, color, pseudolegal_moves[
                CHOOSE k \in 1..Len(pseudolegal_moves) :
                    Panics(k) /\ \A j \in 1..(k - 1) : ~Panics(j)])
       ELSE Ret(SelectSeq(pseudolegal_moves, Pushed))

\* generate_legal with the colour comparison inverted
generate_legal_inverted(b, index, checks) ==
    LET pseudolegal_moves == generate_pseudolegal(b, index, checks)
    IN IF IsPanic(pseudolegal_moves) THEN pseudolegal_moves
       ELSE LET pc_ == piece_from_u8(b.cells[index])
            IN IF IsPanic(pc_) THEN pc_
               ELSE LegalLoop(b, 1 - pc_.val.color, pseudolegal_moves.val)

generate_legal(b, index, checks) ==
    LET pseudolegal_moves == generate_pseudolegal(b, index, checks)
    IN IF IsPanic(pseudolegal_moves) THEN pseudolegal_moves
       ELSE LET pc_ == piece_from_u8(b.cells[index])
            IN IF IsPanic(pc_) THEN pc_
               ELSE LegalLoop(b, pc_.val.color, pseudolegal_moves.val)

----------------------------------------------------------------------------
(* Inputs of Board::new: FEN strings, varied one field at a time around the *)
(* standard starting position                                               *)

RECURSIVE Join(_, _)
\* the pieces joined by sep
Join(pieces, sep) ==
    IF pieces = << >> THEN << >>
    ELSE IF Len(pieces) = 1 THEN pieces[1]
    ELSE pieces[1] \o sep \o Join(Tail(pieces), sep)

\* the six fields separated by single spaces
Fen(placement, turn, castling, ep, half, full) ==
    Join(<<placement, turn, castling, ep, half, full>>, <<" ">>)

StartPlacement == 
    <<"r", "n", "b", "q", "k", "b", "n", "r", "/",
      "p", "p", "p", "p", "p", "p", "p", "p", "/",
      "8", "/",
      "8", "/",
      "8", "/",
      "8", "/",
      "P", "P", "P", "P", "P", "P", "P", "P", "/",
      "R", "N", "B", "Q", "K", "B", "N", "R">>

\* placements of 8 ranks of 8 files
GoodPlacements ==
    { <<"8", "/", "8", "/", "3", "p", "4", "/", "P", "7", "/", "2", "N", "5", "/", "8", "/", "8", "/", "8">>,
      <<"R", "3", "k", "2", "r", "/", "8", "/", "2", "b", "5", "/", "3", "Q", "4", "/", "4", "B", "3", "/", "1", "n", "6", "/", "1", "q", "4", "P", "1", "/", "r", "3", "K", "2", "R">>,
      <<"k", "6", "K", "/", "p", "6", "P", "/", "8", "/", "3", "p", "P", "3", "/", "2", "B", "b", "4", "/", "8", "/", "P", "6", "p", "/", "K", "6", "k">>,
      <<"8", "/", "8", "/", "8", "/", "8", "/", "8", "/", "8", "/", "8", "/", "8">>,
      <<"Q", "6", "q", "/", "8", "/", "8", "/", "3", "r", "R", "3", "/", "3", "N", "n", "3", "/", "8", "/", "8", "/", "b", "6", "B">> }

\* placements with a rank that does not sum to 8 files
BadRankPlacements ==
    { <<"r", "n", "b", "q", "k", "b", "n", "r", "/", "p", "p", "p", "p", "p", "p", "p", "/", "8", "/", "8", "/", "8", "/", "8", "/", "P", "P", "P", "P", "P", "P", "P", "P", "/", "R", "N", "B", "Q", "K", "B", "N", "R">>,
      <<"p", "p", "p", "p", "p", "p", "p", "p", "p", "/", "8", "/", "8", "/", "8", "/", "8", "/", "8", "/", "8", "/", "8">>,
      <<"8", "/", "8", "/", "8", "/", "8", "/", "8", "/", "8", "/", "8", "/", "P", "P", "P", "P", "P", "P", "P", "P", "P">>,
      <<"8", "/", "8", "/", "8", "/", "8", "/", "8", "/", "8", "/", "8", "/", "8", "P">>,
      <<"9", "/", "8", "/", "8", "/", "8", "/", "8", "/", "8", "/", "8", "/", "8">>,
      <<"8", "/", "8", "/", "8", "/", "8", "/", "8", "/", "8", "/", "8", "/", "7">>,
      <<"8", "/", "/", "8", "/", "8", "/", "8", "/", "8", "/", "8", "/", "8">>,
      <<"8", "/", "8", "/", "8", "/", "4", "4", "P", "/", "8", "/", "8", "/", "8", "/", "8">>,
      <<"8", "/", "8", "/", "8", "/", "8", "/", "8", "/", "8", "/", "8", "/", "0">> }

\* placements with an unrecognised piece letter
BadLetterPlacements ==
    { <<"r", "n", "b", "q", "k", "b", "n", "x", "/", "p", "p", "p", "p", "p", "p", "p", "p", "/", "8", "/", "8", "/", "8", "/", "8", "/", "P", "P", "P", "P", "P", "P", "P", "P", "/", "R", "N", "B", "Q", "K", "B", "N", "R">>,
      <<"8", "/", "8", "/", "8", "/", "8", "/", "8", "/", "8", "/", "8", "/", "7", "w">>,
      <<"8", "/", "8", "/", "8", "/", "3", "-", "4", "/", "8", "/", "8", "/", "8", "/", "8">> }

\* placements of ranks of 8 files, but not 8 of them, and a placement with a ninth, empty rank
RankCountPlacements ==
    { <<"8", "/", "8", "/", "8", "/", "8", "/", "8", "/", "8", "/", "8">>,
      <<"8", "/", "8", "/", "8", "/", "8", "/", "8", "/", "8", "/", "8", "/", "8", "/", "8">>,
      <<"r", "n", "b", "q", "k", "b", "n", "r">>,
      <<"8", "/", "8", "/", "8", "/", "8", "/", "8", "/", "8", "/", "8", "/", "8", "/", "P", "7">>,
      <<"8", "/", "8", "/", "8", "/", "8", "/", "8", "/", "8", "/", "8", "/", "8", "/">> }

\* active-colour fields
TurnFields ==
    { <<"w">>,
      <<"b">> }

\* active-colour tokens other than w and b
BadTurnFields ==
    { <<"W">>,
      <<"x">>,
      <<"w", "b">> }

\* castling fields over KQkq and -
CastlingFields ==
    { <<"K", "Q", "k", "q">>,
      <<"-">>,
      <<"K", "q">>,
      <<"K", "K">> }

\* castling fields with a character outside KQkq and -
BadCastlingFields ==
    { <<"K", "Q", "k", "q", "x">>,
      <<"X">>,
      <<"k", "-", "w">> }

\* en-passant fields
EnPassantFields ==
    { <<"-">>,
      <<"e", "3">>,
      <<"a", "1">>,
      <<"h", "8">>,
      <<"a", "9">>,
      <<"z", "9">>,
      <<"e">>,
      <<"A", "1">>,
      <<"e", "0">>,
      <<"e", "3", "x">>,
      <<"h", "Z">> }

\* halfmove fields that parse as u8
HalfmoveFields ==
    { <<"0">>,
      <<"2", "5", "5">>,
      <<"+", "5">>,
      <<"0", "0", "7">> }

\* halfmove fields that do not parse as u8
BadHalfmoveFields ==
    { <<"2", "5", "6">>,
      <<"x">>,
      <<"-", "1">>,
      <<"+">>,
      <<"1", "x">> }

\* fullmove fields that parse as usize
FullmoveFields ==
    { <<"1">>,
      <<"0">>,
      <<"4", "2">> }

\* fullmove fields that do not parse as usize
BadFullmoveFields ==
    { <<"x">>,
      <<"1", "8", "4", "4", "6", "7", "4", "4", "0", "7", "3", "7", "0", "9", "5", "5", "1", "6", "1", "6">>,
      <<"-">> }

\* FEN strings whose field count is not 6
FieldCountFens ==
    { <<"r", "n", "b", "q", "k", "b", "n", "r", "/", "p", "p", "p", "p", "p", "p", "p", "p", "/", "8", "/", "8", "/", "8", "/", "8", "/", "P", "P", "P", "P", "P", "P", "P", "P", "/", "R", "N", "B", "Q", "K", "B", "N", "R", " ", "w", " ", "K", "Q", "k", "q", " ", "-", " ", "0">>,
      <<"r", "n", "b", "q", "k", "b", "n", "r", "/", "p", "p", "p", "p", "p", "p", "p", "p", "/", "8", "/", "8", "/", "8", "/", "8", "/", "P", "P", "P", "P", "P", "P", "P", "P", "/", "R", "N", "B", "Q", "K", "B", "N", "R", " ", "w", " ", "K", "Q", "k", "q", " ", "-", " ", "0", " ", "1", " ", "x">>,
      <<>>,
      <<" ", " ", " ">>,
      <<"8", "/", "8", "/", "8", "/", "8", "/", "8", "/", "8", "/", "8", "/", "8">> }

\* six fields with extra whitespace around them
SpacedFens ==
    { <<" ", " ", "r", "n", "b", "q", "k", "b", "n", "r", "/", "p", "p", "p", "p", "p", "p", "p", "p", "/", "8", "/", "8", "/", "8", "/", "8", "/", "P", "P", "P", "P", "P", "P", "P", "P", "/", "R", "N", "B", "Q", "K", "B", "N", "R", " ", " ", "w", " ", "K", "Q", "k", "q", " ", "-", " ", " ", "0", " ", "1", " ">> }

\* FEN strings with more than one defect
MultiDefectFens ==
    { <<"8", "/", "8", "/", "8", "/", "8", "/", "8", "/", "8", "/", "8", "/", "7", " ", "x", " ", "-", " ", "-", " ", "0", " ", "1">>,
      <<"8", "/", "8", "/", "8", "/", "8", "/", "8", "/", "8", "/", "8", "/", "P", "P", "P", "P", "P", "P", "P", "P", "x", " ", "w", " ", "-", " ", "-", " ", "0", " ", "1">> }

W == <<"w">>
Dash == <<"-">>
Zero == <<"0">>
One == <<"1">>
AllCastling == <<"K", "Q", "k", "q">>

Placements == {StartPlacement} \cup GoodPlacements \cup BadRankPlacements
                \cup BadLetterPlacements \cup RankCountPlacements

FenInputs ==
    {Fen(p, W, AllCastling, Dash, Zero, One) : p \in Placements}
    \cup {Fen(StartPlacement, t, AllCastling, Dash, Zero, One) : t \in TurnFields \cup BadTurnFields}
    \cup {Fen(StartPlacement, W, c, Dash, Zero, One) : c \in CastlingFields \cup BadCastlingFields}
    \cup {Fen(StartPlacement, W, AllCastling, e, Zero, One) : e \in EnPassantFields}
    \cup {Fen(StartPlacement, W, AllCastling, Dash, h, One) : h \in HalfmoveFields \cup BadHalfmoveFields}
    \cup {Fen(StartPlacement, W, AllCastling, Dash, Zero, f) : f \in FullmoveFields \cup BadFullmoveFields}
    \cup FieldCountFens \cup SpacedFens \cup MultiDefectFens

----------------------------------------------------------------------------
(* State machine *)

NoBoard == [tag |-> "NoBoard"]

Squares == 0..63
Deltas == (-MaxDelta)..MaxDelta
Lengths == 0..MaxLength
Bytes == 0..255

Init ==
    /\ board = NoBoard
    /\ overflow_checks \in BOOLEAN
    /\ pc = "idle"
    /\ op = "none"
    /\ args = << >>
    /\ out = None

\* a call that leaves the board alone returns r or panics with r
Finish(name, a, r) ==
    /\ op' = name
    /\ args' = a
    /\ out' = r
    /\ pc' = IF IsPanic(r) THEN "panicked" ELSE "done"
    /\ UNCHANGED <<board, overflow_checks>>

\* a constructor call: the caller keeps the Board it returns
Construct(name, a, r) ==
    /\ op' = name
    /\ args' = a
    /\ out' = r
    /\ pc' = IF IsPanic(r) THEN "panicked" ELSE "done"
    /\ board' = IF IsPanic(r) THEN board ELSE r.val
    /\ UNCHANGED overflow_checks

CallBoardNew ==
    /\ pc = "idle"
    /\ \E fen \in FenInputs : Construct("Board_new", <<fen>>, Board_new(fen, overflow_checks))

CallBoardDefault ==
    /\ pc = "idle"
    /\ Construct("Board_default", << >>, Board_default(overflow_checks))

CallGeneratePseudolegal ==
    /\ pc = "idle"
    /\ board # NoBoard
    /\ \E s \in Squares :
          Finish("generate_pseudolegal", <<s>>, generate_pseudolegal(board, s, overflow_checks))

CallGenerateLegal ==
    /\ pc = "idle"
    /\ board # NoBoard
    /\ \E s \in Squares :
          Finish("generate_legal", <<s>>, generate_legal(board, s, overflow_checks))

CallNewPiece ==
    /\ pc = "idle"
    /\ \E p \in Pieces, c \in Colors : Finish("new_piece", <<p, c>>, Ret(new_piece(p, c)))

CallPieceFromU8 ==
    /\ pc = "idle"
    /\ \E b \in Bytes : Finish("piece_from_u8", <<b>>, piece_from_u8(b))

CallToPadded ==
    /\ pc = "idle"
    /\ \E s \in Squares : Finish("toPadded", <<s>>, Ret(toPadded(s)))

CallFromPadded ==
    /\ pc = "idle"
    /\ \E p \in Bytes : Finish("fromPadded", <<p>>, fromPadded(p))

CallOffsetIndex2d ==
    /\ pc = "idle"
    /\ \E s \in Squares, df \in Deltas, dr \in Deltas :
          Finish("offset_index_2d", <<s, df, dr>>, offset_index_2d(s, df, dr, overflow_checks))

CallOffsetRay2d ==
    /\ pc = "idle"
    /\ \E s \in Squares, df \in Deltas, dr \in Deltas, n \in Lengths :
          Finish("offset_ray_2d", <<s, df, dr, n>>, offset_ray_2d(s, df, dr, n, overflow_checks))

\* the caller takes the result and is ready for the next call
Return ==
    /\ pc = "done"
    /\ pc' = "idle"
    /\ op' = "none"
    /\ args' = << >>
    /\ out' = None
    /\ UNCHANGED <<board, overflow_checks>>

\* board construction, the codec and the move generator
Next ==
    \/ CallBoardNew
    \/ CallBoardDefault
    \/ CallGeneratePseudolegal
    \/ CallGenerateLegal
    \/ CallNewPiece
    \/ CallPieceFromU8
    \/ Return

Spec == Init /\ [][Next]_vars

\* the coordinate mapper on its own
NextMapper ==
    \/ CallToPadded
    \/ CallFromPadded
    \/ CallOffsetIndex2d
    \/ CallOffsetRay2d
    \/ Return

SpecMapper == Init /\ [][NextMapper]_vars

----------------------------------------------------------------------------
(* Board geometry, stated on files and ranks rather than on the mailbox tables *)

FileOf(s) == s % 8
RankOf(s) == s \div 8
OnBoard(f, r) == f \in 0..7 /\ r \in 0..7

\* the number of steps of (df, dr) from s that stay on the board, at most n
StepsOnBoard(s, df, dr, n) ==
    Cardinality({k \in 1..n :
        \A j \in 1..k : OnBoard(FileOf(s) + j * df, RankOf(s) + j * dr)})

\* the squares s + 1*(df, dr), s + 2*(df, dr), ... up to the first off-board
\* step or n steps
RaySquares(s, df, dr, n) ==
    LET m == StepsOnBoard(s, df, dr, n)
    IN IF m = 0 THEN << >>
       ELSE [k \in 1..m |-> (RankOf(s) + k * dr) * 8 + (FileOf(s) + k * df)]

RECURSIVE DirectionSquares(_, _, _, _)
\* the squares of the directions k.. of a moveset, direction by direction
DirectionSquares(s, moveset, k, n) ==
    IF k > Len(moveset.dirs) THEN << >>
    ELSE RaySquares(s, moveset.dirs[k][1], moveset.dirs[k][2], n)
            \o DirectionSquares(s, moveset, k + 1, n)

\* the movement pattern of the occupant whose cell byte is cell: bit 0 is the
\* colour, the bits above it the piece ordinal
PatternSquares(s, cell) ==
    LET moveset == MOVESETS(cell \div 2, cell % 2)
    IN DirectionSquares(s, moveset, 1, IF moveset.sliding THEN 7 ELSE 1)

Occupied(cell) == cell # 0
SameColour(c1, c2) == Occupied(c1) /\ Occupied(c2) /\ c1 % 2 = c2 % 2

Returned(name) == pc = "done" /\ op = name
Called(name) == pc \in {"done", "panicked"} /\ op = name

----------------------------------------------------------------------------
(* Claims *)

\* C1: for every board and occupied square s, generate_legal(board, s) is
\* generate_pseudolegal(board, s) with the destinations that hold a piece of
\* the mover's colour removed, order preserved: no destination holds a
\* same-colour piece, and every pseudolegal destination that is empty or holds
\* an opposite-colour piece is kept.
C1_LegalFiltersOwnColour ==
    (Called("generate_legal") /\ Occupied(board.cells[args[1]])) =>
        LET s == args[1]
            pseudo == generate_pseudolegal(board, s, overflow_checks).val
            Keep(t) == ~SameColour(board.cells[t], board.cells[s])
        IN /\ out.tag = "Ret"
           /\ out.val = SelectSeq(pseudo, Keep)
           /\ \A i \in 1..Len(out.val) : ~SameColour(board.cells[out.val[i]], board.cells[s])
           /\ \A i \in 1..Len(pseudo) :
                Keep(pseudo[i]) => \E j \in 1..Len(out.val) : out.val[j] = pseudo[i]

\* C1 witness: a legal-move list returned for a mover whose pattern reaches an
\* own piece (dropped), an opposing piece (kept) and an empty square (kept)
C1_Witness ==
    /\ Returned("generate_legal")
    /\ Occupied(board.cells[args[1]])
    /\ LET s == args[1]
           pseudo == generate_pseudolegal(board, s, overflow_checks).val
       IN /\ \E i \in 1..Len(pseudo) : SameColour(board.cells[pseudo[i]], board.cells[s])
          /\ \E i \in 1..Len(out.val) :
                Occupied(board.cells[out.val[i]]) /\ ~SameColour(board.cells[out.val[i]], board.cells[s])
          /\ \E i \in 1..Len(out.val) : ~Occupied(board.cells[out.val[i]])
          /\ Len(out.val) < Len(pseudo)

\* C2: for every board and occupied square s, generate_pseudolegal(board, s)
\* is, direction by direction in table order, the on-board squares
\* s + k*(fileDelta, rankDelta), k = 1 for a non-sliding occupant and k = 1..7
\* up to the first off-board step for a sliding one; every square is in
\* [0,64), and the result is a function of s and the cell at s only.
C2_PseudolegalIsPattern ==
    (Called("generate_pseudolegal") /\ Occupied(board.cells[args[1]])) =>
        /\ out.tag = "Ret"
        /\ out.val = PatternSquares(args[1], board.cells[args[1]])
        /\ \A i \in 1..Len(out.val) : out.val[i] \in 0..63

\* C2 witness: the list returned for a sliding piece whose rays run over
\* occupied squares and end at the board edge before 7 steps
C2_Witness ==
    /\ Returned("generate_pseudolegal")
    /\ Occupied(board.cells[args[1]])
    /\ MOVESETS(board.cells[args[1]] \div 2, board.cells[args[1]] % 2).sliding
    /\ Len(out.val) > 7
    /\ \E i \in 1..Len(out.val) : Occupied(board.cells[out.val[i]])
    /\ \E i \in 1..Len(out.val) : FileOf(out.val[i]) = 7

\* C3: for every square s = rank*8 + file and delta (df, dr) in [-2,2]x[-2,2],
\* when offset_index_2d returns a square t then file+df and rank+dr are in
\* [0,8) and t = (rank+dr)*8 + (file+df), and when it returns none the target
\* is off the board: the result never wraps around a board edge.
C3_OffsetNeverWraps ==
    (Called("offset_index_2d") /\ args[2] \in -2..2 /\ args[3] \in -2..2) =>
        LET f == FileOf(args[1]) + args[2]
            r == RankOf(args[1]) + args[3]
        IN /\ out.tag = "Some" => (OnBoard(f, r) /\ out.val = r * 8 + f)
           /\ out.tag = "None" => ~OnBoard(f, r)

\* C3 witness: none is returned for a step over the right edge whose flat
\* index s + df + 8*dr would be a square of the next rank
C3_Witness ==
    /\ Returned("offset_index_2d")
    /\ args[2] \in -2..2 /\ args[3] \in -2..2
    /\ out.tag = "None"
    /\ FileOf(args[1]) + args[2] > 7
    /\ args[1] + args[2] + 8 * args[3] \in 0..63

\* C4: for every square s, delta (df, dr) in [-2,2]x[-2,2] and length n,
\* offset_ray_2d(s, df, dr, n) returns the ordered squares s + 1*(df, dr),
\* s + 2*(df, dr), ..., halting at the first off-board step or after n steps
\* (empty if the first step is off-board); a rook's four rays of length 7 from
\* square 0 have lengths 7, 7, 0 and 0.
C4_RayIsStepSequence ==
    (Called("offset_ray_2d") /\ args[2] \in -2..2 /\ args[3] \in -2..2) =>
        /\ out.tag = "Ret"
        /\ out.val = RaySquares(args[1], args[2], args[3], args[4])
        /\ \A i \in 1..4 :
             (args[1] = 0 /\ args[4] = 7 /\ <<args[2], args[3]>> = RookDirs[i])
                => Len(out.val) = <<7, 7, 0, 0>>[i]

\* C5: fromPadded inverts toPadded on the 64 valid padded positions: for every
\* square s, fromPadded(toPadded(s)) = s (so that converting the result back
\* gives toPadded(s) again).
C5_FromPaddedInvertsToPadded ==
    Called("fromPadded") =>
        \A s \in 0..63 : toPadded(s) = args[1] => (out.tag = "Ret" /\ out.val = s)

\* C6: for every padded index p in [0,120) of the border region (p is not
\* toPadded(s) for any square s), fromPadded(p) fails; it never returns a
\* square for a border position.
C6_FromPaddedRejectsBorder ==
    (Called("fromPadded") /\ args[1] \in 0..119 /\ \A s \in 0..63 : toPadded(s) # args[1]) =>
        out.tag # "Ret"

\* the defects of a FEN string that C7 lists
PieceLetters == {"P", "N", "B", "R", "Q", "K", "p", "n", "b", "r", "q", "k"}
CastlingLetters == {"K", "Q", "k", "q", "-"}

RECURSIVE RankFiles(_)
\* the files a rank text covers: its digits plus one per piece letter
RankFiles(rank) ==
    IF rank = << >> THEN 0
    ELSE (IF is_ascii_digit(rank[1]) THEN to_digit(rank[1])
          ELSE IF rank[1] \in PieceLetters THEN 1 ELSE 0) + RankFiles(Tail(rank))

BadFieldCount(fen) == Len(split_whitespace(fen)) # 6
BadTurn(f) == f[2] # <<"w">> /\ f[2] # <<"b">>
BadCastlingChars(f) == {f[3][i] : i \in 1..Len(f[3])} \ CastlingLetters
BadHalfmove(f) == parse_unsigned(f[5], U8MaxDigits) = Err
BadFullmove(f) == parse_unsigned(f[6], UsizeMaxDigits) = Err
BadPieceChars(f) ==
    {f[1][i] : i \in 1..Len(f[1])} \ (PieceLetters \cup {"/"} \cup {DigitChars[i] : i \in 1..10})
BadRanks(f) ==
    LET ranks == split(f[1], "/")
    IN {ranks[i] : i \in {j \in 1..Len(ranks) : RankFiles(ranks[j]) # 8}}

Malformed(fen) ==
    \/ BadFieldCount(fen)
    \/ LET f == split_whitespace(fen)
       IN \/ BadTurn(f)
          \/ BadCastlingChars(f) # {}
          \/ BadHalfmove(f)
          \/ BadFullmove(f)
          \/ BadPieceChars(f) # {}
          \/ BadRanks(f) # {}

\* the panic r is a format error that names a defective field or character of fen
NamesDefect(fen, r) ==
    /\ r.tag = "Panic"
    /\ \/ r.msg = "Invalid FEN: expected 6 fields" /\ BadFieldCount(fen)
       \/ /\ ~BadFieldCount(fen)
          /\ LET f == split_whitespace(fen)
             IN \/ r.msg = "Invalid turn field" /\ BadTurn(f) /\ r.detail = f[2]
                \/ r.msg = "Invalid castling char" /\ r.detail \in BadCastlingChars(f)
                \/ r.msg = "Invalid halfmove clock" /\ BadHalfmove(f)
                \/ r.msg = "Invalid fullmove clock" /\ BadFullmove(f)
                \/ r.msg = "Invalid piece char" /\ r.detail \in BadPieceChars(f)
                \/ r.msg = "Invalid FEN row" /\ r.detail \in BadRanks(f)

\* C7: Board::new on a FEN string with a field count other than 6, an
\* active-colour token other than w or b, a castling character outside KQkq
\* and -, an unparsable halfmove or fullmove field, an unrecognised piece
\* letter, or a rank that does not sum to 8 files fails with a format error
\* that identifies the offending field or character, and returns no Board.
C7_MalformedFenRejected ==
    (Called("Board_new") /\ Malformed(args[1])) =>
        /\ pc = "panicked"
        /\ NamesDefect(args[1], out)

\* C8: the default board has exactly 16 pawns, 8 White on rank index 6 and
\* 8 Black on rank index 1, exactly one king per colour, all four castling
\* flags true, no en-passant target, halfmove clock 0 and fullmove counter 1.
C8_DefaultBoard ==
    Called("Board_default") =>
        /\ pc = "done"
        /\ out.val = board
        /\ {s \in 0..63 : board.cells[s] \div 2 = Pawn} = 8..15 \cup 48..55
        /\ \A s \in 48..55 : board.cells[s] = 2 * Pawn + White
        /\ \A s \in 8..15 : board.cells[s] = 2 * Pawn + Black
        /\ Cardinality({s \in 0..63 : board.cells[s] = 2 * King + White}) = 1
        /\ Cardinality({s \in 0..63 : board.cells[s] = 2 * King + Black}) = 1
        /\ board.castling_availability = <<TRUE, TRUE, TRUE, TRUE>>
        /\ board.en_passant_target_square = None
        /\ board.halfmove_clock = 0
        /\ board.fullmove_clock = 1

\* C8 witness: Board::default has returned its board
C8_Witness ==
    /\ Returned("Board_default")
    /\ board.tag = "Board"
    /\ Cardinality({s \in 0..63 : board.cells[s] # 0}) = 32

\* C9: for every board and square s whose cell is 0, generate_pseudolegal and
\* generate_legal panic when they decode the cell as a piece and return no
\* move list.
C9_EmptySquareTraps ==
    ((Called("generate_pseudolegal") \/ Called("generate_legal")) /\ board.cells[args[1]] = 0) =>
        /\ pc = "panicked"
        /\ out = Panic("unwrap on Err")

\* C9 witness: move generation was called on an empty square of a board that
\* also holds pieces
C9_Witness ==
    /\ pc = "panicked"
    /\ op = "generate_pseudolegal"
    /\ board.cells[args[1]] = 0
    /\ \E s \in 0..63 : board.cells[s] # 0

\* C10: for every piece p and colour c, new_piece(p, c) is a nonzero byte,
\* distinct for distinct (p, c), and piece_from_u8(new_piece(p, c)) = (p, c).
C10_DecodeInvertsEncode ==
    /\ Called("new_piece") =>
          /\ pc = "done"
          /\ out.val \in 1..255
          /\ out.val = 2 * args[1] + args[2]
          /\ \A p \in Pieces, c \in Colors : (<<p, c>> # args) => (2 * p + c # out.val)
          /\ piece_from_u8(out.val) = Ret([piece |-> args[1], color |-> args[2]])
    /\ Called("piece_from_u8") =>
          \A p \in Pieces, c \in Colors :
             (args[1] = new_piece(p, c)) => (out = Ret([piece |-> p, color |-> c]))

\* C10 witness: a cell byte that encodes a piece was decoded to that piece
C10_Witness ==
    /\ Returned("piece_from_u8")
    /\ \E p \in Pieces, c \in Colors : args[1] = new_piece(p, c) /\ out.val = [piece |-> p, color |-> c]

\* the shapes of a delta (fileDelta, rankDelta)
Abs(x) == IF x < 0 THEN -x ELSE x
UnitVector(d) == (IF Abs(d[1]) > Abs(d[2]) THEN Abs(d[1]) ELSE Abs(d[2])) = 1
KnightShaped(d) == {Abs(d[1]), Abs(d[2])} = {1, 2}
SlidingPieces == {Bishop, Rook, Queen}

\* the deltas of the DirectionSet of (p, c)
TableDeltas(p, c) == {MOVESETS(p, c).dirs[i] : i \in 1..Len(MOVESETS(p, c).dirs)}

\* the two-square advance of a pawn of colour c: White toward decreasing rank
\* index, Black toward increasing
TwoSquareAdvance(c) == IF c = White THEN <<0, -2>> ELSE <<0, 2>>

\* the (piece, colour) pairs whose DirectionSet the move generator looks up on
\* the current board: the occupants of its squares
Occupants ==
    IF board = NoBoard THEN {}
    ELSE {<<board.cells[s] \div 2, board.cells[s] % 2>> : s \in {t \in Squares : Occupied(board.cells[t])}}

\* C11 as stated: every delta in every DirectionSet of the movement table is a
\* unit vector or knight-shaped, and every delta of a sliding piece (Bishop,
\* Rook, Queen) is a unit vector; stated of the DirectionSet of every piece
\* that stands on the board.
C11_DeltasUnitOrKnight ==
    \A occ \in Occupants :
        LET p == occ[1]
            c == occ[2]
        IN /\ \A d \in TableDeltas(p, c) : UnitVector(d) \/ KnightShaped(d)
           /\ p \in SlidingPieces => \A d \in TableDeltas(p, c) : UnitVector(d)

\* C11 amended: every delta in every DirectionSet of the movement table is a
\* unit vector, knight-shaped, or, in a Pawn's DirectionSet only, that pawn's
\* two-square advance (0, -2) for White and (0, 2) for Black; the sliding
\* pieces are exactly Bishop, Rook and Queen and every delta of theirs is a
\* unit vector.
C11_DeltasUnitKnightOrPawnAdvance ==
    \A occ \in Occupants :
        LET p == occ[1]
            c == occ[2]
        IN /\ \A d \in TableDeltas(p, c) :
                \/ UnitVector(d)
                \/ KnightShaped(d)
                \/ p = Pawn /\ d = TwoSquareAdvance(c)
           /\ MOVESETS(p, c).sliding <=> p \in SlidingPieces
           /\ p \in SlidingPieces => \A d \in TableDeltas(p, c) : UnitVector(d)

\* C11 witness: on a board that holds every piece of either colour,
\* generate_pseudolegal has walked a pawn's DirectionSet and returned the
\* square two ranks ahead of it on its own file
C11_Witness ==
    /\ Returned("generate_pseudolegal")
    /\ board.cells[args[1]] \div 2 = Pawn
    /\ Occupants = Pieces \X Colors
    /\ \E i \in 1..Len(out.val) :
          /\ FileOf(out.val[i]) = FileOf(args[1])
          /\ Abs(RankOf(out.val[i]) - RankOf(args[1])) = 2

\* the standard starting position, cell by cell: rank index 0 is Black's back
\* rank, rank index 7 is White's
BackRank == <<Rook, Knight, Bishop, Queen, King, Bishop, Knight, Rook>>
StartCells ==
    [s \in 0..63 |->
        CASE RankOf(s) = 0 -> 2 * BackRank[FileOf(s) + 1] + Black
          [] RankOf(s) = 1 -> 2 * Pawn + Black
          [] RankOf(s) = 6 -> 2 * Pawn + White
          [] RankOf(s) = 7 -> 2 * BackRank[FileOf(s) + 1] + White
          [] OTHER -> 0]

\* the squares of a move list
Targets(moves) == {moves[i] : i \in 1..Len(moves)}

\* C12: on the standard starting position, generate_pseudolegal for the White
\* pawn on e2 (square 52) returns exactly the four squares e3 (44), e4 (36),
\* f3 (45) and d3 (43), all of them toward decreasing rank index, and
\* generate_legal for that pawn returns a list that contains e3 and e4.
C12_E2PawnMoves ==
    /\ (Called("generate_pseudolegal") /\ args[1] = 52 /\ board.cells = StartCells) =>
          /\ out.tag = "Ret"
          /\ Len(out.val) = 4
          /\ Targets(out.val) = {44, 36, 45, 43}
          /\ \A t \in Targets(out.val) : RankOf(t) < RankOf(52)
    /\ (Called("generate_legal") /\ args[1] = 52 /\ board.cells = StartCells) =>
          /\ out.tag = "Ret"
          /\ {44, 36} \subseteq Targets(out.val)

\* C12 witness: generate_legal has returned the moves of the e2 pawn of the
\* standard starting position, e4 among them
C12_Witness ==
    /\ Returned("generate_legal")
    /\ board.cells = StartCells
    /\ board.cells[52] = 2 * Pawn + White
    /\ args[1] = 52
    /\ 36 \in Targets(out.val)

I8 == -128..127

\* C13: for every square s and delta (df, dr) in [-2,2]x[-2,2], the padded
\* index toPadded(s) + df + 10*dr that offset_index computes lies in [0,120),
\* no step of its 8-bit signed arithmetic overflows, and offset_index_2d does
\* not panic.
C13_PaddedIndexInBounds ==
    (Called("offset_index_2d") /\ args[2] \in -2..2 /\ args[3] \in -2..2) =>
        LET offset == args[2] + 10 * args[3]
            padded == toPadded(args[1]) + offset
        IN /\ 10 * args[3] \in I8 /\ offset \in I8 /\ padded \in I8
           /\ padded \in 0..119
           /\ out.tag # "Panic"

\* the number of '/'-separated ranks of the piece-placement field of fen
RankCount(fen) ==
    LET placement == split_whitespace(fen)[1]
    IN 1 + Cardinality({i \in 1..Len(placement) : placement[i] = "/"})

\* C14: Board::new returns a Board only when the piece-placement field has
\* exactly 8 '/'-separated ranks; a placement with fewer or more ranks is
\* rejected and yields no Board.
C14_ExactlyEightRanks ==
    Returned("Board_new") => RankCount(args[1]) = 8

\* C15: in every Board that construction returns, the en-passant target, when
\* present, is a square in [0,64): the conversion file = char0 - 'a',
\* rank = char1 - '1', square = file + rank*8 of the en-passant field either
\* gives a value in [0,64) or construction fails.
C15_EnPassantInRange ==
    (board # NoBoard /\ board.en_passant_target_square.tag = "Some") =>
        board.en_passant_target_square.val \in 0..63

====
